---- MODULE Spec2Model ----
(***************************************************************************)
(* django2go (src/main.go): a run of main -- the embedded Python extractor *)
(* (pythonScript), json.Unmarshal into Output, and the generators          *)
(* generateSQL / generateDownSQL / generateSQLCConfig writing the          *)
(* artifacts -- together with the generators and toSnake as pure functions.*)
(*                                                                         *)
(* Text is modelled as TLA+ strings, byte for byte: the generators build   *)
(* their output with the same concatenations and the same Truncate as the  *)
(* Go code, and the properties read that output back (lines, statements).  *)
(***************************************************************************)
EXTENDS Integers, Sequences, FiniteSets, TLC

VARIABLES
    app,        \* the Django app under --input: the files os.walk yields, in order
    dialect,    \* --dialect
    pc,         \* position in main (or in the function-level specifications)
    models,     \* out.Models: the []Model that json.Unmarshal produced
    perr,       \* the error runPythonParser returned ("" is nil)
    now,        \* the wall clock, in seconds
    written,    \* the output directory: path -> content
    stdout,     \* what main printed
    ident,      \* toSnake's argument (SnakeSpec)
    once,       \* toSnake(ident)
    twice       \* toSnake(toSnake(ident))

vars == <<app, dialect, pc, models, perr, now, written, stdout, ident, once, twice>>

(***************************************************************************)
(* Bounds.                                                                 *)
(***************************************************************************)
MaxFiles == 2      \* files in the app
MaxStmts == 2      \* class-body statements in the whole app
MaxClock == 1      \* seconds the clock may advance during a run
MaxModels == 2     \* models handed to a generator (GenSpec)
MaxFields == 2     \* fields in the whole model list (GenSpec)
MaxLen == 3        \* length of an identifier handed to toSnake (SnakeSpec)

(***************************************************************************)
(* strings: ToLower and ReplaceAll, as toSnake and the extractor use them. *)
(***************************************************************************)
UpperLetters == "ABCDEFGHIJKLMNOPQRSTUVWXYZ"
LowerLetters == "abcdefghijklmnopqrstuvwxyz"

\* unicode.ToLower on the letters A-Z; any other character is kept.
LowerOf ==
    [c \in {SubSeq(UpperLetters, i, i) : i \in 1..Len(UpperLetters)} |->
        LET i == CHOOSE i \in 1..Len(UpperLetters) : SubSeq(UpperLetters, i, i) = c
        IN  SubSeq(LowerLetters, i, i)]

ToLowerChar(c) == IF c \in DOMAIN LowerOf THEN LowerOf[c] ELSE c

RECURSIVE ToLower(_)
ToLower(s) ==
    IF s = "" THEN "" ELSE ToLowerChar(SubSeq(s, 1, 1)) \o ToLower(SubSeq(s, 2, Len(s)))

\* strings.ReplaceAll / str.replace, for a non-empty old.
RECURSIVE ReplaceAll(_, _, _)
ReplaceAll(s, old, new) ==
    IF Len(s) < Len(old) THEN s
    ELSE IF SubSeq(s, 1, Len(old)) = old
         THEN new \o ReplaceAll(SubSeq(s, Len(old) + 1, Len(s)), old, new)
         ELSE SubSeq(s, 1, 1) \o ReplaceAll(SubSeq(s, 2, Len(s)), old, new)

\* strings.Replace(s, old, new, 1): only the first occurrence.
RECURSIVE ReplaceFirst(_, _, _)
ReplaceFirst(s, old, new) ==
    IF Len(s) < Len(old) THEN s
    ELSE IF SubSeq(s, 1, Len(old)) = old
         THEN new \o SubSeq(s, Len(old) + 1, Len(s))
         ELSE SubSeq(s, 1, 1) \o ReplaceFirst(SubSeq(s, 2, Len(s)), old, new)

toSnakeFirstOnly(s) == ToLower(ReplaceFirst(s, " ", "_"))

\* toSnake converts a string to snake_case.
toSnake(s) == ToLower(ReplaceAll(s, " ", "_"))

(***************************************************************************)
(* SnakeSpec: toSnake as a pure function, applied once and then again to   *)
(* its own result.                                                         *)
(***************************************************************************)
Alphabet == {"A", "b", " ", "_"}

RECURSIVE Strings(_)
Strings(n) ==
    IF n = 0 THEN {""}
    ELSE LET shorter == Strings(n - 1)
         IN  shorter \cup {s \o c : s \in {t \in shorter : Len(t) = n - 1}, c \in Alphabet}

Idle ==
    /\ app = <<>> /\ dialect = "postgres" /\ models = <<>> /\ perr = ""
    /\ now = 0 /\ written = <<>> /\ stdout = <<>>

SnakeInit ==
    /\ Idle
    /\ pc = "snake0"
    /\ ident \in Strings(MaxLen)
    /\ once = "" /\ twice = ""

ApplyToSnake ==
    /\ pc = "snake0"
    /\ once' = toSnake(ident)
    /\ pc' = "snake1"
    /\ UNCHANGED <<app, dialect, models, perr, now, written, stdout, ident, twice>>

ApplyToSnakeAgain ==
    /\ pc = "snake1"
    /\ twice' = toSnake(once)
    /\ pc' = "snake2"
    /\ UNCHANGED <<app, dialect, models, perr, now, written, stdout, ident, once>>

SnakeNext == ApplyToSnake \/ ApplyToSnakeAgain

SnakeSpec == SnakeInit /\ [][SnakeNext]_vars

\* C9: toSnake is idempotent: applying it to its own result changes nothing.
C9_ToSnakeIdempotent == pc = "snake2" => twice = once

\* C9 witness: an identifier with two spaces and an upper-case letter went
\* through both applications, and the first one changed it.
C9_Witness ==
    /\ pc = "snake2"
    /\ ident = "A  "
    /\ once = "a__"
    /\ once # ident

(***************************************************************************)
(* The Go data model (Field, Model) and the generators.                    *)
(***************************************************************************)
\* Field represents a field in a Django model.
Field(name, type, nullable, unique, relation, relatedTo) ==
    [Name |-> name, Type |-> type, Nullable |-> nullable, Unique |-> unique,
     Relation |-> relation, RelatedTo |-> relatedTo]

\* Model represents a Django model with its fields.
Model(name, fields) == [Name |-> name, Fields |-> fields]

\* sqlType maps Django field types to SQL types based on dialect.
sqlType(ftype, dialect_) ==
    CASE ftype \in {"CharField", "TextField"} -> "TEXT"
      [] ftype = "IntegerField" -> "INTEGER"
      [] ftype = "FloatField" -> "REAL"
      [] ftype = "BooleanField" -> "BOOLEAN"
      [] ftype \in {"DateField", "DateTimeField"} -> "TIMESTAMP"
      [] OTHER -> "TEXT"

\* sb.Truncate(n): the builder keeps its first n bytes (bytes.Buffer's Truncate).
Truncate(sb, n) == SubSeq(sb, 1, n)

columnLineInverted(f, dialect_) ==
    LET col0 == "    " \o toSnake(f.Name) \o " " \o sqlType(f.Type, dialect_)
        col1 == IF f.Nullable THEN col0 \o " NOT NULL" ELSE col0
        col2 == IF f.Unique THEN col1 \o " UNIQUE" ELSE col1
    IN  col2

\* generateSQL, the body of the first loop over m.Fields: one column.
columnLine(f, dialect_) ==
    LET col0 == "    " \o toSnake(f.Name) \o " " \o sqlType(f.Type, dialect_)
        col1 == IF ~f.Nullable THEN col0 \o " NOT NULL" ELSE col0
        col2 == IF f.Unique THEN col1 \o " UNIQUE" ELSE col1
    IN  col2

\* generateSQL, the first loop over m.Fields.
RECURSIVE writeColumns(_, _, _)
writeColumns(sb, fields, dialect_) ==
    IF fields = <<>> THEN sb
    ELSE writeColumns(sb \o columnLine(Head(fields), dialect_) \o ",\n",
                      Tail(fields), dialect_)

\* generateSQL, the second loop over m.Fields: the FOREIGN KEY constraints.
RECURSIVE writeForeignKeys(_, _)
writeForeignKeys(sb, fields) ==
    IF fields = <<>> THEN sb
    ELSE LET f == Head(fields)
         IN  writeForeignKeys(
                 IF f.Relation = "foreignkey" \/ f.Relation = "one2one"
                 THEN sb \o "    FOREIGN KEY (" \o toSnake(f.Name) \o "_id) REFERENCES "
                         \o toSnake(f.RelatedTo) \o "(id),\n"
                 ELSE sb,
                 Tail(fields))

\* generateSQL, the third loop over m.Fields: the join tables.
RECURSIVE writeJoinTables(_, _, _)
writeJoinTables(sb, m, fields) ==
    IF fields = <<>> THEN sb
    ELSE LET f == Head(fields)
             join == toSnake(m.Name) \o "_" \o toSnake(f.Name)
         IN  writeJoinTables(
                 IF f.Relation = "many2many"
                 THEN sb \o "CREATE TABLE " \o join \o " (\n    "
                         \o toSnake(m.Name) \o "_id INTEGER REFERENCES "
                         \o toSnake(m.Name) \o "(id),\n    "
                         \o toSnake(f.RelatedTo) \o "_id INTEGER REFERENCES "
                         \o toSnake(f.RelatedTo) \o "(id)\n);\n\n"
                 ELSE sb,
                 m, Tail(fields))

trimSeparatorOffByOne(sb) == Truncate(sb, Len(sb) - 1)

\* generateSQL: sb.Truncate(sb.Len() - 2), dropping the last ",\n".
trimSeparator(sb) == Truncate(sb, Len(sb) - 2)

\* generateSQL, the body of the loop over models.
writeModel(sb, m, dialect_) ==
    LET s1 == sb \o "CREATE TABLE " \o toSnake(m.Name) \o " (\n"
        s2 == s1 \o "    id SERIAL PRIMARY KEY,\n"
        s3 == writeColumns(s2, m.Fields, dialect_)
        s4 == writeForeignKeys(s3, m.Fields)
        s5 == trimSeparator(s4)
        s6 == s5 \o "\n);\n\n"
    IN  writeJoinTables(s6, m, m.Fields)

RECURSIVE writeModels(_, _, _)
writeModels(sb, ms, dialect_) ==
    IF ms = <<>> THEN sb
    ELSE writeModels(writeModel(sb, Head(ms), dialect_), Tail(ms), dialect_)

\* generateSQL generates CREATE TABLE SQL for the given models.
generateSQL(ms, dialect_) == writeModels("", ms, dialect_)

\* generateDownSQL, the inner loop: the DROPs of a model's join tables.
RECURSIVE dropJoinTables(_, _, _)
dropJoinTables(sb, m, fields) ==
    IF fields = <<>> THEN sb
    ELSE LET f == Head(fields)
         IN  dropJoinTables(
                 IF f.Relation = "many2many"
                 THEN sb \o "DROP TABLE IF EXISTS " \o toSnake(m.Name) \o "_"
                         \o toSnake(f.Name) \o ";\n"
                 ELSE sb,
                 m, Tail(fields))

dropModelOwnFirst(sb, m) ==
    dropJoinTables(sb \o "DROP TABLE IF EXISTS " \o toSnake(m.Name) \o ";\n", m, m.Fields)

\* generateDownSQL, the body of the loop over models.
dropModel(sb, m) ==
    dropJoinTables(sb, m, m.Fields) \o "DROP TABLE IF EXISTS " \o toSnake(m.Name) \o ";\n"

RECURSIVE dropModels(_, _)
dropModels(sb, ms) ==
    IF ms = <<>> THEN sb ELSE dropModels(dropModel(sb, Head(ms)), Tail(ms))

\* generateDownSQL generates DROP TABLE SQL statements for the models.
generateDownSQL(ms, dialect_) == dropModels("", ms)

\* generateSQLCConfig returns a sqlc.yaml configuration string.
generateSQLCConfig(dialect_) ==
    "version: \"2\"\nsql:\n  - engine: " \o dialect_
    \o "\n    queries: \"./query.sql\"\n    schema: \"./schema.sql\"\n"
    \o "    gen:\n      go:\n        package: \"db\"\n        out: \"./db\"\n"

Dialects == {"postgres", "mysql"}

(***************************************************************************)
(* Reading generated text back: lines and statements.                      *)
(***************************************************************************)
\* The lines of t from position from on, each without its "\n"; an
\* unterminated tail is a last line.
RECURSIVE LinesFrom(_, _)
LinesFrom(t, from) ==
    IF from > Len(t) THEN <<>>
    ELSE IF \A i \in from..Len(t) : SubSeq(t, i, i) # "\n"
    THEN <<SubSeq(t, from, Len(t))>>
    ELSE LET nl == CHOOSE i \in from..Len(t) :
                       /\ SubSeq(t, i, i) = "\n"
                       /\ \A j \in from..(i - 1) : SubSeq(t, j, j) # "\n"
         IN  <<SubSeq(t, from, nl - 1)>> \o LinesFrom(t, nl + 1)

Lines(t) == LinesFrom(t, 1)

Contains(s, sub) == \E i \in 1..(Len(s) - Len(sub) + 1) : SubSeq(s, i, i + Len(sub) - 1) = sub
StartsWith(s, pre) == Len(s) >= Len(pre) /\ SubSeq(s, 1, Len(pre)) = pre
EndsWith(s, suf) == Len(s) >= Len(suf) /\ SubSeq(s, Len(s) - Len(suf) + 1, Len(s)) = suf
\* A line without the separator that may end it.
NoComma(l) == IF EndsWith(l, ",") THEN SubSeq(l, 1, Len(l) - 1) ELSE l

(***************************************************************************)
(* GenSpec: generateSQL and generateDownSQL as pure functions of a model   *)
(* list.                                                                   *)
(***************************************************************************)
GenFields ==
    { Field("title", "CharField", FALSE, FALSE, "", ""),
      Field("slug", "CharField", TRUE, TRUE, "", ""),
      Field("author", "ForeignKey", FALSE, FALSE, "foreignkey", "Author"),
      Field("Co Author", "OneToOneField", FALSE, TRUE, "one2one", "Author"),
      Field("tags", "ManyToManyField", TRUE, FALSE, "many2many", "Author") }

ModelNames == {"Book", "Author"}

RECURSIVE SeqsOfLen(_, _)
SeqsOfLen(S, k) ==
    IF k = 0 THEN {<<>>} ELSE {Append(s, e) : s \in SeqsOfLen(S, k - 1), e \in S}

\* Model lists of at most m models holding at most t fields in all.
RECURSIVE ModelLists(_, _)
ModelLists(m, t) ==
    {<<>>} \cup
    (IF m = 0 THEN {}
     ELSE UNION { { <<Model(n, fs)>> \o rest :
                        n \in ModelNames, fs \in SeqsOfLen(GenFields, k),
                        rest \in ModelLists(m - 1, t - k) } : k \in 0..t })

GenInit ==
    /\ app = <<>> /\ perr = "" /\ now = 0 /\ stdout = <<>>
    /\ ident = "" /\ once = "" /\ twice = ""
    /\ pc = "gen"
    /\ dialect \in Dialects
    /\ models \in ModelLists(MaxModels, MaxFields)
    /\ written = <<>>

ApplyGenerateSQL ==
    /\ pc = "gen"
    /\ "up" \notin DOMAIN written
    /\ written' = ("up" :> generateSQL(models, dialect)) @@ written
    /\ UNCHANGED <<app, dialect, pc, models, perr, now, stdout, ident, once, twice>>

ApplyGenerateDownSQL ==
    /\ pc = "gen"
    /\ "down" \notin DOMAIN written
    /\ written' = ("down" :> generateDownSQL(models, dialect)) @@ written
    /\ UNCHANGED <<app, dialect, pc, models, perr, now, stdout, ident, once, twice>>

GenNext == ApplyGenerateSQL \/ ApplyGenerateDownSQL

GenSpec == GenInit /\ [][GenNext]_vars

(***************************************************************************)
(* What the generated SQL says, read back from the text.                   *)
(***************************************************************************)
\* The statements of a schema text, from its lines: each runs from a header
\* line to the line ");" that closes it, and is followed by a blank line.
Statements(ls) ==
    LET cl == {i \in 1..Len(ls) : ls[i] = ");"}
        n == Cardinality(cl)
        close(k) == CHOOSE i \in cl : Cardinality({j \in cl : j < i}) = k - 1
        start(k) == IF k = 1 THEN 1 ELSE close(k - 1) + 2
    IN  [k \in 1..n |-> [header |-> ls[start(k)],
                         body |-> SubSeq(ls, start(k) + 1, close(k) - 1),
                         blank |-> close(k) < Len(ls) /\ ls[close(k) + 1] = ""]]

\* Every line belongs to a closed statement.
AllClosed(ls, st) ==
    LET RECURSIVE total(_)
        total(k) == IF k = 0 THEN 0 ELSE total(k - 1) + Len(st[k].body) + 3
    IN  /\ total(Len(st)) = Len(ls)
        /\ \A k \in 1..Len(st) :
              /\ st[k].blank
              /\ StartsWith(st[k].header, "CREATE TABLE ")
              /\ EndsWith(st[k].header, " (")

OwnHeader(m) == "CREATE TABLE " \o toSnake(m.Name) \o " ("

\* Statement s is a well-formed CREATE of model m's own table: the primary key
\* first and only once, a separator after every line but the last.
IsModelStatement(s, m) ==
    LET b == s.body
    IN  /\ s.header = OwnHeader(m)
        /\ Len(b) >= 1
        /\ NoComma(b[1]) = "    id SERIAL PRIMARY KEY"
        /\ Cardinality({j \in 1..Len(b) : Contains(b[j], "PRIMARY KEY")}) = 1
        /\ ~EndsWith(b[Len(b)], ",")
        /\ \A j \in 1..(Len(b) - 1) : EndsWith(b[j], ",")
        /\ (m.Fields = <<>> => b = <<"    id SERIAL PRIMARY KEY">>)

\* Models ms[i..] each have their statement in st[k..], in the models' order.
RECURSIVE ModelStatementsFrom(_, _, _, _)
ModelStatementsFrom(i, k, ms, st) ==
    \/ i > Len(ms)
    \/ \E b \in k..Len(st) :
          /\ IsModelStatement(st[b], ms[i])
          /\ ModelStatementsFrom(i + 1, b + 1, ms, st)

OwnDrop(m) == "DROP TABLE IF EXISTS " \o toSnake(m.Name) \o ";"
JoinName(m, f) == toSnake(m.Name) \o "_" \o toSnake(f.Name)
JoinDrop(m, f) == "DROP TABLE IF EXISTS " \o JoinName(m, f) \o ";"

\* Models ms[i..] each have their own DROP in ls[start..], in the models'
\* order, every join table of a model dropped before the model's own table.
RECURSIVE DropsOrderedFrom(_, _, _, _)
DropsOrderedFrom(i, start, ms, ls) ==
    \/ i > Len(ms)
    \/ \E p \in start..Len(ls) :
          /\ ls[p] = OwnDrop(ms[i])
          /\ \A j \in 1..Len(ms[i].Fields) :
                ms[i].Fields[j].Relation = "many2many"
                => \E q \in start..(p - 1) : ls[q] = JoinDrop(ms[i], ms[i].Fields[j])
          /\ DropsOrderedFrom(i + 1, p + 1, ms, ls)

\* <<T, U>>: table T holds a reference to table U.
References(ms) ==
    UNION { UNION { LET m == ms[i]
                        f == m.Fields[j]
                    IN  IF f.Relation = "many2many"
                        THEN {<<JoinName(m, f), toSnake(m.Name)>>,
                              <<JoinName(m, f), toSnake(f.RelatedTo)>>}
                        ELSE IF f.Relation \in {"foreignkey", "one2one"}
                        THEN {<<toSnake(m.Name), toSnake(f.RelatedTo)>>}
                        ELSE {} : j \in 1..Len(ms[i].Fields) } : i \in 1..Len(ms) }

DropAt(ls, table) == {p \in 1..Len(ls) : ls[p] = "DROP TABLE IF EXISTS " \o table \o ";"}

DistinctNames(ms) == \A i, j \in 1..Len(ms) : ms[i].Name = ms[j].Name => i = j

\* C5: in the output of generateDownSQL every table that references another
\* table is dropped before the table it references (model names distinct, a
\* table's reference to itself left aside).
C5_ReferencingTableDroppedFirst ==
    ("down" \in DOMAIN written /\ pc = "gen" /\ DistinctNames(models))
    => LET ls == Lines(written["down"])
       IN  \A r \in References(models) :
              r[1] # r[2]
              => \A p \in DropAt(ls, r[1]), q \in DropAt(ls, r[2]) : p < q

C7_CreateStatementClosed ==
    ("up" \in DOMAIN written /\ pc = "gen")
    => LET ls == Lines(written["up"])
           st == Statements(ls)
       IN  /\ AllClosed(ls, st)
           /\ ModelStatementsFrom(1, 1, models, st)

\* C7 witness: generateSQL has run on a model without fields followed by a
\* model with a column and a constraint.
C7_Witness ==
    /\ pc = "gen"
    /\ "up" \in DOMAIN written
    /\ Len(models) = 2
    /\ models[1].Fields = <<>>
    /\ \E j \in 1..Len(models[2].Fields) : models[2].Fields[j].Relation = "foreignkey"
    /\ StartsWith(written["up"], "CREATE TABLE book (\n    id SERIAL PRIMARY KEY\n);\n\n")

(***************************************************************************)
(* The Python extractor (pythonScript), over the syntax trees ast.parse    *)
(* builds.  An expression node carries the attributes the script reads:    *)
(* node (its class), id (ast.Name), attr (ast.Attribute), value            *)
(* (ast.Constant).  A Python value is tagged with its type.                *)
(***************************************************************************)
PyNone == [t |-> "none", v |-> ""]
PyTrue == [t |-> "bool", v |-> "True"]
PyFalse == [t |-> "bool", v |-> "False"]
PyStr(s) == [t |-> "str", v |-> s]
\* A syntax-tree node held as a value: json.dumps cannot serialise it.
PyNode == [t |-> "node", v |-> ""]

NameNode(id) == [node |-> "Name", id |-> id, attr |-> "", value |-> PyNone]
AttributeNode(attr) == [node |-> "Attribute", id |-> "", attr |-> attr, value |-> PyNode]
ConstantNode(v) == [node |-> "Constant", id |-> "", attr |-> "", value |-> v]
TupleNode == [node |-> "Tuple", id |-> "", attr |-> "", value |-> PyNone]

Keyword(arg, value) == [arg |-> arg, value |-> value]
Call(func, args, keywords) ==
    [node |-> "Call", func |-> func, args |-> args, keywords |-> keywords]
NotACall == [node |-> "Constant", func |-> TupleNode, args |-> <<>>, keywords |-> <<>>]
Assign(targets, value) == [node |-> "Assign", targets |-> targets, value |-> value]
FunctionDef == [node |-> "FunctionDef", targets |-> <<>>, value |-> NotACall]
ClassDef(name, bases, body) == [name |-> name, bases |-> bases, body |-> body]

(***************************************************************************)
(* ast.parse, as a table over the source lines the apps are written in: a  *)
(* file's text is a class header followed by the statements of its body.   *)
(***************************************************************************)
modelsDot(ctor) == AttributeNode(ctor)

LineTitle == "title = models.CharField(max_length=255)"
LineAuthor == "author = models.ForeignKey(Author, on_delete=models.CASCADE)"
LineEditor == "editor = models.ForeignKey(\"Author\", null=True)"
LineTags == "tags = models.ManyToManyField(Tag)"
LineProfile == "profile = models.OneToOneField(Profile, unique=True)"
LineSlug == "slug = models.CharField(unique=True, null=True)"
LinePages == "pages = models.IntegerField(null=ALLOW_NULL, unique=False)"
LineRating == "rating = models.FloatField(null=\"yes\")"
LineTuple == "first, last = split_name()"
LineAttribute == "Meta.ordering = by(\"title\")"
LineOwner == "owner = models.ForeignKey(to=Author)"
LineDef == "def __str__(self): return self.title"

SourceLines ==
    { LineTitle, LineAuthor, LineEditor, LineTags, LineProfile, LineSlug, LinePages,
      LineRating, LineTuple, LineAttribute, LineOwner, LineDef }

\* The statement node of a source line.
parseStatement(l) ==
    CASE l = LineTitle ->
           Assign(<<NameNode("title")>>,
                  Call(modelsDot("CharField"), <<>>,
                       <<Keyword("max_length", ConstantNode(PyStr("255")))>>))
      [] l = LineAuthor ->
           Assign(<<NameNode("author")>>,
                  Call(modelsDot("ForeignKey"), <<NameNode("Author")>>,
                       <<Keyword("on_delete", AttributeNode("CASCADE"))>>))
      [] l = LineEditor ->
           Assign(<<NameNode("editor")>>,
                  Call(modelsDot("ForeignKey"), <<ConstantNode(PyStr("Author"))>>,
                       <<Keyword("null", ConstantNode(PyTrue))>>))
      [] l = LineTags ->
           Assign(<<NameNode("tags")>>,
                  Call(modelsDot("ManyToManyField"), <<NameNode("Tag")>>, <<>>))
      [] l = LineProfile ->
           Assign(<<NameNode("profile")>>,
                  Call(modelsDot("OneToOneField"), <<NameNode("Profile")>>,
                       <<Keyword("unique", ConstantNode(PyTrue))>>))
      [] l = LineSlug ->
           Assign(<<NameNode("slug")>>,
                  Call(modelsDot("CharField"), <<>>,
                       <<Keyword("unique", ConstantNode(PyTrue)),
                         Keyword("null", ConstantNode(PyTrue))>>))
      [] l = LinePages ->
           Assign(<<NameNode("pages")>>,
                  Call(modelsDot("IntegerField"), <<>>,
                       <<Keyword("null", NameNode("ALLOW_NULL")),
                         Keyword("unique", ConstantNode(PyFalse))>>))
      [] l = LineRating ->
           Assign(<<NameNode("rating")>>,
                  Call(modelsDot("FloatField"), <<>>,
                       <<Keyword("null", ConstantNode(PyStr("yes")))>>))
      [] l = LineTuple ->
           Assign(<<TupleNode>>, Call(NameNode("split_name"), <<>>, <<>>))
      [] l = LineAttribute ->
           Assign(<<AttributeNode("ordering")>>,
                  Call(NameNode("by"), <<ConstantNode(PyStr("title"))>>, <<>>))
      [] l = LineOwner ->
           Assign(<<NameNode("owner")>>,
                  Call(modelsDot("ForeignKey"), <<>>, <<Keyword("to", NameNode("Author"))>>))
      [] OTHER -> FunctionDef

ClassNames == <<"Book", "Author", "Tag", "Review">>

\* ast.parse(f.read()): the module's top-level nodes, or no tree at all for
\* a text that is not Python.
astParse(text) ==
    LET h == text[1]
        named == {i \in 1..Len(ClassNames) : StartsWith(h, "class " \o ClassNames[i] \o "(")}
        n == ClassNames[CHOOSE i \in named : TRUE]
        body == [j \in 1..(Len(text) - 1) |-> parseStatement(text[j + 1])]
    IN  IF named = {} THEN [ok |-> FALSE, body |-> <<>>]
        ELSE IF h = "class " \o n \o "(Model):"
        THEN [ok |-> TRUE, body |-> <<ClassDef(n, <<NameNode("Model")>>, body)>>]
        ELSE IF h = "class " \o n \o "(models.Model):"
        THEN [ok |-> TRUE, body |-> <<ClassDef(n, <<AttributeNode("Model")>>, body)>>]
        ELSE [ok |-> FALSE, body |-> <<>>]


\* getattr(k.value, 's', getattr(k.value, 'value', None))
keywordValue(n) ==
    CASE n.node = "Constant" -> n.value
      [] n.node = "Attribute" -> n.value
      [] OTHER -> PyNone

\* kwargs.get(key, False) over {k.arg: ... for k in stmt.value.keywords}
kwargsGet(keywords, key) ==
    IF \E i \in 1..Len(keywords) : keywords[i].arg = key
    THEN keywordValue(keywords[CHOOSE i \in 1..Len(keywords) :
                                   /\ keywords[i].arg = key
                                   /\ \A j \in (i + 1)..Len(keywords) : keywords[j].arg # key].value)
    ELSE PyFalse

RelationConstructors == {"ForeignKey", "OneToOneField", "ManyToManyField"}

\* related = ftype.lower().replace("field", "")
relationKind(ftype) == ReplaceAll(ToLower(ftype), "field", "")

\* The body of "for stmt in node.body": the field a statement contributes
\* (skip: none), or the exception it raises.
extractField(stmt) ==
    IF ~(stmt.node = "Assign" /\ stmt.value.node = "Call")
    THEN [raise |-> "", skip |-> TRUE, field |-> <<>>]
    ELSE IF stmt.targets[1].node # "Name"
    THEN [raise |-> "AttributeError", skip |-> TRUE, field |-> <<>>]
    ELSE LET fname == stmt.targets[1].id
             ftype == IF stmt.value.func.node = "Attribute" THEN stmt.value.func.attr ELSE ""
             nullable == kwargsGet(stmt.value.keywords, "null")
             unique == kwargsGet(stmt.value.keywords, "unique")
         IN  IF ftype \in RelationConstructors
             THEN IF stmt.value.args = <<>>
                  THEN [raise |-> "IndexError", skip |-> TRUE, field |-> <<>>]
                  ELSE [raise |-> "", skip |-> FALSE,
                        field |-> [name |-> PyStr(fname), type |-> PyStr(ftype),
                                   nullable |-> nullable, unique |-> unique,
                                   relation |-> PyStr(relationKind(ftype)),
                                   related_to |-> IF stmt.value.args[1].node = "Name"
                                                  THEN PyStr(stmt.value.args[1].id)
                                                  ELSE PyStr("")]]
             ELSE [raise |-> "", skip |-> FALSE,
                   field |-> [name |-> PyStr(fname), type |-> PyStr(ftype),
                              nullable |-> nullable, unique |-> unique,
                              relation |-> PyNone, related_to |-> PyNone]]

\* "for stmt in node.body": the fields of one class, or the first exception.
RECURSIVE extractFields(_, _)
extractFields(body, fields) ==
    IF body = <<>> THEN [raise |-> "", fields |-> fields]
    ELSE LET r == extractField(Head(body))
         IN  IF r.raise # "" THEN [raise |-> r.raise, fields |-> fields]
             ELSE extractFields(Tail(body),
                                IF r.skip THEN fields ELSE Append(fields, r.field))

\* bases = [b.id if isinstance(b, ast.Name) else "" for b in node.bases];
\* "Model" in bases
isModelClass(c) ==
    \E i \in 1..Len(c.bases) :
        (IF c.bases[i].node = "Name" THEN c.bases[i].id ELSE "") = "Model"

\* "for node in tree.body": the models of one file appended to result.
RECURSIVE extractClasses(_, _)
extractClasses(classes, result) ==
    IF classes = <<>> THEN [raise |-> "", result |-> result]
    ELSE LET c == Head(classes)
         IN  IF ~isModelClass(c) THEN extractClasses(Tail(classes), result)
             ELSE LET r == extractFields(c.body, <<>>)
                  IN  IF r.raise # "" THEN [raise |-> r.raise, result |-> result]
                      ELSE extractClasses(Tail(classes),
                               Append(result, [name |-> PyStr(c.name), fields |-> r.fields]))

\* extract_models: the walk over the files; an exception ends the script.
RECURSIVE extract_models(_, _)
extract_models(files, result) ==
    IF files = <<>> THEN [raise |-> "", result |-> result]
    ELSE LET f == Head(files)
         IN  IF ~EndsWith(f.name, ".py") THEN extract_models(Tail(files), result)
             ELSE LET tree == astParse(f.text)
                  IN  IF ~tree.ok THEN [raise |-> "SyntaxError", result |-> result]
                      ELSE LET r == extractClasses(tree.body, result)
                           IN  IF r.raise # "" THEN r
                               ELSE extract_models(Tail(files), r.result)

\* json.dumps accepts None, bool and str; anything else is a TypeError.
Serializable(ms) ==
    \A i \in 1..Len(ms) : \A j \in 1..Len(ms[i].fields) :
        LET f == ms[i].fields[j]
        IN  \A v \in {f.name, f.type, f.nullable, f.unique, f.relation, f.related_to} :
                v.t \in {"none", "bool", "str"}

(***************************************************************************)
(* runPythonParser: the script's exit status and json.Unmarshal.           *)
(***************************************************************************)
\* json.Unmarshal into a bool / a string: null leaves the zero value, a value
\* of another type is an error.
IntoBool(v) == v.t \in {"bool", "none"}
IntoString(v) == v.t \in {"str", "none"}
GoBool(v) == v.t = "bool" /\ v.v = "True"
GoString(v) == IF v.t = "str" THEN v.v ELSE ""

UnmarshalField(f) ==
    Field(GoString(f.name), GoString(f.type), GoBool(f.nullable), GoBool(f.unique),
          GoString(f.relation), GoString(f.related_to))

UnmarshalOK(ms) ==
    \A i \in 1..Len(ms) : \A j \in 1..Len(ms[i].fields) :
        LET f == ms[i].fields[j]
        IN  /\ IntoString(f.name) /\ IntoString(f.type)
            /\ IntoBool(f.nullable) /\ IntoBool(f.unique)
            /\ IntoString(f.relation) /\ IntoString(f.related_to)

Unmarshal(ms) ==
    [i \in 1..Len(ms) |->
        Model(GoString(ms[i].name),
              [j \in 1..Len(ms[i].fields) |-> UnmarshalField(ms[i].fields[j])])]

\* runPythonParser executes the embedded Python script on the Django app path.
runPythonParser(files) ==
    LET r == extract_models(files, <<>>)
    IN  IF r.raise # "" THEN [err |-> r.raise, Models |-> <<>>]
        ELSE IF ~Serializable(r.result) THEN [err |-> "TypeError", Models |-> <<>>]
        ELSE IF ~UnmarshalOK(r.result) THEN [err |-> "UnmarshalTypeError", Models |-> <<>>]
        ELSE [err |-> "", Models |-> Unmarshal(r.result)]

(***************************************************************************)
(* main.                                                                   *)
(***************************************************************************)
Digits == "0123456789"
TwoDigits(n) == SubSeq(Digits, (n \div 10) + 1, (n \div 10) + 1)
                \o SubSeq(Digits, (n % 10) + 1, (n % 10) + 1)

\* timestamp returns a formatted timestamp string for file naming: the clock
\* counts the seconds of 2025-04-10 13:15.
timestamp(t) == "202504101315" \o TwoDigits(t)

OutputDir == "out"
MigrationsDir == OutputDir \o "/migrations"

\* write writes content to a file at the given path.
write(fs, path, content) == (path :> content) @@ [q \in DOMAIN fs \ {path} |-> fs[q]]

\* The class of the i-th file is named ClassNames[i].  The body of a class
\* whose base is not the bare name Model (class Tag(models.Model)) is never
\* read, so such a class is given none.
SourceFile(name, text) == [name |-> name, text |-> text]
BadFile == SourceFile("broken.py", <<"class Broken(Model:">>)
TextFile == SourceFile("README.md", <<"# Django app">>)
ClassFile(n, base, body) ==
    SourceFile(ToLower(n) \o ".py", <<"class " \o n \o "(" \o base \o "):">> \o body)

FilesWith(pos, k) ==
    IF k = 0
    THEN { BadFile, TextFile,
           ClassFile(ClassNames[pos], "Model", <<>>),
           ClassFile(ClassNames[pos], "models.Model", <<>>) }
    ELSE { ClassFile(ClassNames[pos], "Model", body) : body \in SeqsOfLen(SourceLines, k) }

\* app is an app of the files so far and at most m more, the next one the
\* pos-th, holding at most t more class-body statements in all.
RECURSIVE AppFrom(_, _, _, _)
AppFrom(sofar, pos, m, t) ==
    \/ app = sofar
    \/ /\ m > 0
       /\ \E k \in 0..t : \E f \in FilesWith(pos, k) :
             AppFrom(Append(sofar, f), pos + 1, m - 1, t - k)

Init ==
    /\ AppFrom(<<>>, 1, MaxFiles, MaxStmts)
    /\ dialect = "postgres"      \* the flag's default
    /\ pc = "parse"
    /\ models = <<>>
    /\ perr = ""
    /\ now = 0
    /\ written = <<>>
    /\ stdout = <<>>
    /\ ident = "" /\ once = "" /\ twice = ""

\* main: out, err := runPythonParser(*input); on an error, print it and exit 1.
RunParser ==
    /\ pc = "parse"
    /\ LET r == runPythonParser(app)
       IN  /\ perr' = r.err
           /\ models' = r.Models
           /\ IF r.err # ""
              THEN /\ stdout' = Append(stdout, "Parser error: " \o r.err)
                   /\ pc' = "exit1"
              ELSE /\ stdout' = stdout
                   /\ pc' = "parsed"
    /\ UNCHANGED <<app, dialect, now, written, ident, once, twice>>

\* main with --dry-run: print the models and the queries, write nothing.
DryRun ==
    /\ pc = "parsed"
    /\ stdout' = stdout \o <<"=== Models ===">>
                 \o [i \in 1..Len(models) |-> models[i].Name] \o <<"=== Queries ===">>
    /\ pc' = "done"
    /\ UNCHANGED <<app, dialect, models, perr, now, written, ident, once, twice>>

\* main: os.MkdirAll(migrations) and the write of schema.sql.
WriteSchema ==
    /\ pc = "parsed"
    /\ written' = write(written, OutputDir \o "/schema.sql", generateSQL(models, dialect))
    /\ pc' = "up"
    /\ UNCHANGED <<app, dialect, models, perr, now, stdout, ident, once, twice>>

\* main: the write of <timestamp()>_create_tables.up.sql.
WriteUp ==
    /\ pc = "up"
    /\ written' = write(written, MigrationsDir \o "/" \o timestamp(now) \o "_create_tables.up.sql",
                        generateSQL(models, dialect))
    /\ pc' = "down"
    /\ UNCHANGED <<app, dialect, models, perr, now, stdout, ident, once, twice>>

\* main: the write of <timestamp()>_create_tables.down.sql.
WriteDown ==
    /\ pc = "down"
    /\ written' = write(written, MigrationsDir \o "/" \o timestamp(now) \o "_create_tables.down.sql",
                        generateDownSQL(models, dialect))
    /\ pc' = "query"
    /\ UNCHANGED <<app, dialect, models, perr, now, stdout, ident, once, twice>>

\* main: the write of query.sql (the files of these apps hold no ORM calls).
WriteQuery ==
    /\ pc = "query"
    /\ written' = write(written, OutputDir \o "/query.sql", "")
    /\ pc' = "config"
    /\ UNCHANGED <<app, dialect, models, perr, now, stdout, ident, once, twice>>

\* main: the write of sqlc.yaml and the closing message.
WriteConfig ==
    /\ pc = "config"
    /\ written' = write(written, OutputDir \o "/sqlc.yaml", generateSQLCConfig(dialect))
    /\ stdout' = Append(stdout, "Generated schema.sql, migrations, query.sql, sqlc.yaml")
    /\ pc' = "done"
    /\ UNCHANGED <<app, dialect, models, perr, now, ident, once, twice>>

\* The wall clock passes a second between the two timestamp() calls (the
\* clock is read nowhere else).
Tick ==
    /\ pc = "down"
    /\ now < MaxClock
    /\ now' = now + 1
    /\ UNCHANGED <<app, dialect, pc, models, perr, written, stdout, ident, once, twice>>

Next ==
    \/ RunParser
    \/ DryRun
    \/ WriteSchema
    \/ WriteUp
    \/ WriteDown
    \/ WriteQuery
    \/ WriteConfig
    \/ Tick

Spec == Init /\ [][Next]_vars

(***************************************************************************)
(* What the app declares, read from its source, and what a run wrote.      *)
(***************************************************************************)
IsPython(f) == EndsWith(f.name, ".py")
Parses(f) == astParse(f.text).ok

\* The model classes of the files that parse, in the order of the walk.
RECURSIVE ModelClasses(_)
ModelClasses(files) ==
    IF files = <<>> THEN <<>>
    ELSE (IF IsPython(Head(files)) /\ Parses(Head(files))
          THEN SelectSeq(astParse(Head(files).text).body, isModelClass)
          ELSE <<>>) \o ModelClasses(Tail(files))

\* A simple assignment of a call expression to a single identifier.
FieldShaped(stmt) ==
    /\ stmt.node = "Assign"
    /\ stmt.value.node = "Call"
    /\ Len(stmt.targets) = 1
    /\ stmt.targets[1].node = "Name"

Constructor(stmt) ==
    IF stmt.value.func.node = "Attribute" THEN stmt.value.func.attr ELSE ""

\* ... and, for a relation constructor, one called with a positional argument.
Matching(stmt) ==
    FieldShaped(stmt) /\ (Constructor(stmt) \in RelationConstructors => stmt.value.args # <<>>)

\* A relation declared on the related model's name: ForeignKey(Author, ...).
RelationTo(stmt, ctors) ==
    /\ Matching(stmt)
    /\ Constructor(stmt) \in ctors
    /\ stmt.value.args[1].node = "Name"

HasKeyword(stmt, key) == \E i \in 1..Len(stmt.value.keywords) : stmt.value.keywords[i].arg = key
DeclaredTrue(stmt, key) ==
    \E i \in 1..Len(stmt.value.keywords) :
        /\ stmt.value.keywords[i].arg = key
        /\ stmt.value.keywords[i].value.node = "Constant"
        /\ stmt.value.keywords[i].value.value = PyTrue

FieldNames(fields) == [j \in 1..Len(fields) |-> fields[j].Name]
DeclaredNames(stmts) == [j \in 1..Len(stmts) |-> stmts[j].targets[1].id]

SchemaPath == OutputDir \o "/schema.sql"
SchemaWritten == pc \in {"up", "down", "query", "config", "done"} /\ SchemaPath \in DOMAIN written
SchemaStatements == Statements(Lines(written[SchemaPath]))

UpSuffix == "_create_tables.up.sql"
DownSuffix == "_create_tables.down.sql"
\* The timestamp tokens of the migration files with the given suffix.
Tokens(suffix) ==
    { SubSeq(p, Len(MigrationsDir) + 2, Len(p) - Len(suffix)) :
          p \in {q \in DOMAIN written : StartsWith(q, MigrationsDir \o "/") /\ EndsWith(q, suffix)} }

SQLTypes == {"TEXT", "INTEGER", "REAL", "BOOLEAN", "TIMESTAMP"}
Suffix(nullable, unique) ==
    (IF nullable THEN "" ELSE " NOT NULL") \o (IF unique THEN " UNIQUE" ELSE "")

\* The column lines of a CREATE statement's body, one per field and in the
\* fields' order, each "<col> <type>" with the suffix its field asks for;
\* the fields are those the class declares, null and unique as declared.
ColumnLines(body, fields, decls) ==
    /\ Len(fields) = Len(decls)
    /\ Len(body) >= 1 + Len(fields)
    /\ \A j \in 1..Len(fields) :
          LET f == fields[j]
              d == decls[j]
              l == NoComma(body[j + 1])
          IN  /\ f.Name = d.targets[1].id
              /\ \E ty \in SQLTypes :
                    l = "    " \o toSnake(f.Name) \o " " \o ty \o Suffix(f.Nullable, f.Unique)
              /\ (DeclaredTrue(d, "null") /\ DeclaredTrue(d, "unique")
                  => \E ty \in SQLTypes : l = "    " \o toSnake(f.Name) \o " " \o ty \o " UNIQUE")
              /\ (~HasKeyword(d, "null") => ~f.Nullable)
              /\ (~HasKeyword(d, "unique") => ~f.Unique)

\* Classes cs[i..] each have their statement in st[k..], in the classes'
\* order, with the column lines of their fields.
RECURSIVE ColumnsFrom(_, _, _, _, _)
ColumnsFrom(i, k, cs, ms, st) ==
    \/ i > Len(cs)
    \/ \E b \in k..Len(st) :
          /\ st[b].header = "CREATE TABLE " \o toSnake(cs[i].name) \o " ("
          /\ ColumnLines(st[b].body, ms[i].Fields, SelectSeq(cs[i].body, FieldShaped))
          /\ ColumnsFrom(i + 1, b + 1, cs, ms, st)

\* C1: the owning table's CREATE statement has, for every field read from a
\* ForeignKey or OneToOneField declaration on model R, a NOT NULL column
\* <field>_id and, after all plain columns, the constraint
\* FOREIGN KEY (<field>_id) REFERENCES <r>(id).
C1_ForeignKeyColumnAndConstraint ==
    SchemaWritten
    => LET cs == ModelClasses(app)
           st == SchemaStatements
       IN  \A i \in 1..Len(cs) : \A j \in 1..Len(cs[i].body) :
              LET d == cs[i].body[j]
              IN  (RelationTo(d, {"ForeignKey", "OneToOneField"}) /\ ~HasKeyword(d, "null"))
                  => \E b \in 1..Len(st) :
                        LET body == st[b].body
                            col == toSnake(d.targets[1].id) \o "_id"
                            fk == "    FOREIGN KEY (" \o col \o ") REFERENCES "
                                  \o toSnake(d.value.args[1].id) \o "(id)"
                        IN  /\ st[b].header = "CREATE TABLE " \o toSnake(cs[i].name) \o " ("
                            /\ \E p, q \in 1..Len(body) :
                                  /\ p < q
                                  /\ StartsWith(body[p], "    " \o col \o " ")
                                  /\ Contains(body[p], " NOT NULL")
                                  /\ NoComma(body[q]) = fk
                                  /\ \A r \in q..Len(body) :
                                        StartsWith(body[r], "    FOREIGN KEY ")

\* C2: for every field read from a ManyToManyField declaration the schema
\* holds, after the owning model's CREATE statement, the join table
\* <model>_<field> with exactly two integer columns referencing <model>(id)
\* and <related>(id); the relation kind the extractor derived is the kind the
\* generator tests for.
C2_JoinTableEmitted ==
    SchemaWritten
    => LET cs == ModelClasses(app)
           st == SchemaStatements
       IN  \A i \in 1..Len(cs) : \A j \in 1..Len(cs[i].body) :
              LET d == cs[i].body[j]
                  m == toSnake(cs[i].name)
              IN  RelationTo(d, {"ManyToManyField"})
                  => /\ \A x \in 1..Len(models[i].Fields) :
                           models[i].Fields[x].Name = d.targets[1].id
                           => models[i].Fields[x].Relation = "many2many"
                     /\ \E a, b \in 1..Len(st) :
                           /\ a < b
                           /\ st[a].header = "CREATE TABLE " \o m \o " ("
                           /\ st[b].header = "CREATE TABLE " \o m \o "_"
                                             \o toSnake(d.targets[1].id) \o " ("
                           /\ st[b].body =
                                <<"    " \o m \o "_id INTEGER REFERENCES " \o m \o "(id),",
                                  "    " \o toSnake(d.value.args[1].id) \o "_id INTEGER REFERENCES "
                                  \o toSnake(d.value.args[1].id) \o "(id)">>

Unparsable(files) == SelectSeq(files, LAMBDA f : IsPython(f) /\ ~Parses(f))
Others(files) == SelectSeq(files, LAMBDA f : ~(IsPython(f) /\ ~Parses(f)))

\* C3: a run over an app with one file that cannot be parsed, whose other
\* files can be extracted, still ends with the other files' models
\* extracted and their artifacts written, the failing file reported.
C3_ParseFailureIsolated ==
    LET rest == runPythonParser(Others(app))
    IN  (/\ pc \in {"done", "exit1"}
         /\ Len(Unparsable(app)) = 1
         /\ rest.err = ""
         /\ rest.Models # <<>>)
        => /\ pc = "done"
           /\ models = rest.Models
           /\ \E i \in 1..Len(stdout) : Contains(stdout[i], Unparsable(app)[1].name)
           /\ (written # <<>> => written[SchemaPath] = generateSQL(rest.Models, dialect))

\* C4: once both migration files are written, their names carry the same
\* timestamp token.
C4_MigrationPairSharesTimestamp ==
    pc \in {"query", "config", "done"} => Tokens(UpSuffix) = Tokens(DownSuffix)

\* C8: in the schema main wrote, every field has, in declaration order, one
\* column line "<col> <type>" followed by NOT NULL exactly when the field is
\* not nullable and by UNIQUE exactly when it is unique; a field declared
\* unique=True, null=True reads "<col> <type> UNIQUE".
C8_ColumnSuffixes ==
    SchemaWritten
    => /\ Len(models) = Len(ModelClasses(app))
       /\ ColumnsFrom(1, 1, ModelClasses(app), models, SchemaStatements)

\* C8 witness: a run wrote the schema of a class that declares a field with
\* unique=True, null=True before a field with neither.
C8_Witness ==
    /\ pc = "done"
    /\ app = <<ClassFile("Book", "Model", <<LineSlug, LineTitle>>)>>
    /\ SchemaWritten
    /\ written[SchemaPath] = "CREATE TABLE book (\n    id SERIAL PRIMARY KEY,\n"
                             \o "    slug TEXT UNIQUE,\n    title TEXT NOT NULL\n);\n\n"

\* C10: a class-body statement that is not a simple assignment of a call to
\* a single identifier (or is a relation constructor called without a
\* positional argument) raises no error and contributes no field, and the
\* other statements and classes are extracted.
C10_NonMatchingStatementSkipped ==
    LET cs == ModelClasses(app)
    IN  (/\ pc # "parse"
         /\ Unparsable(app) = <<>>
         /\ perr \notin {"TypeError", "UnmarshalTypeError"})
        => /\ perr = ""
           /\ Len(models) = Len(cs)
           /\ \A i \in 1..Len(cs) :
                 FieldNames(models[i].Fields) = DeclaredNames(SelectSeq(cs[i].body, Matching))

====
